---- MODULE Spec2Model ----
(***************************************************************************)
(* State-machine model of pan3d's ContourExplorer                          *)
(* (src/pan3d/explorers/contour.py) and of has_gpu_rendering               *)
(* (src/pan3d/utils.py).                                                   *)
(*                                                                         *)
(* Python values are encoded so that every variable keeps one shape:       *)
(*   - None is the string "None", a missing attribute the string "unset";  *)
(*   - an optional list is a record [is_none, items];                      *)
(*   - a scale entry of the reactive state is a record [kind, v] where     *)
(*     kind is "num" (a Python number) or "str" (the text a text field     *)
(*     sends) and v is the value in thousandths; a float is the integer    *)
(*     number of thousandths.                                              *)
(*                                                                         *)
(* The reactive state of the web framework is modelled by the dictionary   *)
(* `state` and the set `dirty` of keys written since their callback last   *)
(* ran; the framework's flush runs the callback registered for a dirty     *)
(* key, one callback per step.                                             *)
(***************************************************************************)
EXTENDS Integers, Sequences, FiniteSets

\* ------------------------------------------------------------------------
\* Bounds of the model
\* ------------------------------------------------------------------------

\* number of user interactions (widget edits, button clicks) in one run
MaxEdits == 2

\* number of environment variables besides BINDER_REQUEST
NbOtherEnv == 2

\* ------------------------------------------------------------------------
\* Inputs: the dataset, the command line, the environment
\* ------------------------------------------------------------------------

\* The labelled-array dataset behind the source: per field, one row of
\* point values per time step.
Dataset == [f1 |-> << <<1, 4>>, <<0, 2>> >>, f2 |-> << <<3, 5>> >>]

\* source.available_arrays, in order
available_arrays == <<"f1", "f2">>

Fields == {available_arrays[i] : i \in 1..Len(available_arrays)}

\* values of --import-state: not on the command line, the empty string, a
\* path that does not exist, a path of an existing JSON file
ImportStateArgs == {"absent", "", "missing.json", "state.json"}

Exists(path) == path = "state.json"

\* config["preview"]["color_by"] of the JSON file, "absent" when the key
\* path is not in the file
ColorByValues == {"absent", "f2"}

LocalRenderingArgs == {"None", "wasm"}

VARIABLES
    argv,             \* constructor arguments and command line
    pc,               \* "start", "exited", "raised", "built", "ready"
    exit_status,      \* status of sys.exit, -1 while running
    help_printed,     \* parser.print_help() was called
    local_rendering,  \* self.local_rendering
    last_field,       \* self.last_field
    last_preset,      \* self.last_preset
    source,           \* self.source: kind, t_index, arrays
    assign,           \* scalars assigned by self.assign
    mapper,           \* self.mapper: color_array, scalar_range
    bands,            \* self.bands: contour values (scaled by nb - 1)
    lut,              \* preset applied to self.lut
    actor,            \* self.actor: scale, visibility
    actor_lines,      \* self.actor_lines: scale, visibility
    conn,             \* input connection of every pipeline stage
    state,            \* the reactive state dictionary
    dirty,            \* state keys whose callback has not run yet
    view_calls,       \* controller calls of the latest callback run
    edits,            \* user interactions so far
    environ,          \* os.environ
    gpu               \* result of the latest has_gpu_rendering() call

vars == <<argv, pc, exit_status, help_printed, local_rendering, last_field,
          last_preset, source, assign, mapper, bands, lut, actor,
          actor_lines, conn, state, dirty, view_calls, edits, environ, gpu>>

appVars == <<argv, pc, exit_status, help_printed, local_rendering,
             last_field, last_preset, source, assign, mapper, bands, lut,
             actor, actor_lines, conn, state, dirty, view_calls, edits>>

\* ------------------------------------------------------------------------
\* has_gpu_rendering
\* ------------------------------------------------------------------------

target_env_vars == <<"BINDER_REQUEST">>

OtherEnvVars == {"HOME", "JUPYTERHUB_USER", "DISPLAY", "LANG"}

EnvNames == {"BINDER_REQUEST"} \cup
            {n \in OtherEnvVars :
                \E i \in 1..NbOtherEnv :
                    n = <<"HOME", "JUPYTERHUB_USER", "DISPLAY", "LANG">>[i]}

\* a variable is not set ("unset") or holds a string
EnvValues == {"unset", "", "1", "false"}

\* os.environ.get(k): None when k is not set
environ_get(env, k) == IF env[k] = "unset" THEN "None" ELSE env[k]

\* Python truth value of None or a string
Truthy(v) == v # "None" /\ v # ""

has_gpu_rendering_any_var(env) ==
    ~ \E k \in DOMAIN env : Truthy(environ_get(env, k))

has_gpu_rendering(env) ==
    ~ \E i \in 1..Len(target_env_vars) :
        Truthy(environ_get(env, target_env_vars[i]))

CallHasGpuRendering ==
    /\ gpu' = IF has_gpu_rendering(environ) THEN "True" ELSE "False"
    /\ UNCHANGED <<environ, appVars>>

\* ------------------------------------------------------------------------
\* Values of the reactive state
\* ------------------------------------------------------------------------

Num(v) == [kind |-> "num", v |-> v]

Str(v) == [kind |-> "str", v |-> v]

\* pan3d.utils.convert.to_float: the float a number or a numeric text
\* stands for
to_float(x) == x.v

ScaleKeys == {"scale_x", "scale_y", "scale_z"}

DataKeys == {"field", "time_idx"}

ColorKeys == {"color_min", "color_max", "color_preset", "nb_contours"}

WatchedKeys == ScaleKeys \cup DataKeys \cup ColorKeys

PRESETS == {"Cool to Warm", "Viridis"}

\* what the text fields, selects and sliders of the control panel can send
ScaleInputs == {Str(2000), Str(10)}

ColorInputs == {2, 7}

NbContoursInputs == {2, 3}

NoState == [k \in {} |-> 0]

\* ------------------------------------------------------------------------
\* Pipeline objects
\* ------------------------------------------------------------------------

NoConn == [s \in {} |-> ""]

NoSource == [kind |-> "unset", t_index |-> 0,
             arrays |-> [is_none |-> TRUE, items |-> <<>>]]

NoAssign == [created |-> FALSE, field |-> "None"]

NoMapper == [created |-> FALSE, color_array |-> "None",
             scalar_range |-> <<0, 1>>]

NoBands == [created |-> FALSE, values |-> <<>>, scale |-> 1]

NoLut == [created |-> FALSE, preset |-> "default"]

NoActor == [created |-> FALSE, scale |-> <<1000, 1000, 1000>>,
            visibility |-> TRUE]

\* Python's `[field] if field is not None else None`
ArraysOf(field) ==
    IF field # "None" THEN [is_none |-> FALSE, items |-> <<field>>]
                      ELSE [is_none |-> TRUE, items |-> <<>>]

Pipeline_lines_from_bands ==
    [geometry     |-> "source",
     triangle     |-> "geometry",
     cell2point   |-> "triangle",
     refine       |-> "cell2point",
     assign       |-> "refine",
     bands        |-> "assign",
     mapper       |-> "bands:0",
     actor        |-> "mapper",
     mapper_lines |-> "bands:0",
     actor_lines  |-> "mapper_lines",
     renderer_1   |-> "actor",
     renderer_2   |-> "actor_lines"]

\* the connections _setup_vtk makes: stage |-> the output it reads
Pipeline ==
    [geometry     |-> "source",
     triangle     |-> "geometry",
     cell2point   |-> "triangle",
     refine       |-> "cell2point",
     assign       |-> "refine",
     bands        |-> "assign",
     mapper       |-> "bands:0",
     actor        |-> "mapper",
     mapper_lines |-> "bands:1",
     actor_lines  |-> "mapper_lines",
     renderer_1   |-> "actor",
     renderer_2   |-> "actor_lines"]

\* ------------------------------------------------------------------------
\* ContourExplorer.__init__
\* ------------------------------------------------------------------------

\* required=(source is None and xarray is None)
import_state_required(a) == a.source = "None" /\ a.xarray = "None"

parse_known_args_optional(a) ==
    [ok |-> TRUE, wasm |-> a.wasm, vtkjs |-> a.vtkjs,
     import_state |-> IF a.import_state = "absent" THEN "None"
                      ELSE a.import_state]

\* parse_known_args: a required argument that is missing is a usage error
\* of the argument parser, which exits with status 2
parse_known_args(a) ==
    IF import_state_required(a) /\ a.import_state = "absent"
    THEN [ok |-> FALSE, wasm |-> FALSE, vtkjs |-> FALSE,
          import_state |-> "None"]
    ELSE [ok |-> TRUE, wasm |-> a.wasm, vtkjs |-> a.vtkjs,
          import_state |-> IF a.import_state = "absent" THEN "None"
                           ELSE a.import_state]

select_local_rendering_wasm_first(local, args) ==
    IF args.wasm THEN "wasm"
    ELSE IF args.vtkjs THEN "vtkjs"
    ELSE local

\* self.local_rendering after the two `if args...` statements
select_local_rendering(local, args) ==
    IF args.vtkjs THEN "vtkjs"
    ELSE IF args.wasm THEN "wasm"
    ELSE local

\* Path(args.import_state) if args.import_state else None
config_file_of(args) ==
    IF args.import_state \in {"None", ""} THEN "None" ELSE args.import_state

\* the test guarding print_help() and sys.exit(0)
nothing_to_show(a, config_file) ==
    /\ config_file = "None" \/ ~Exists(config_file)
    /\ a.source = "None"
    /\ a.xarray = "None"

\* config["preview"]["color_by"], None on KeyError
config_field(a) == IF a.color_by = "absent" THEN "None" ELSE a.color_by

choose_source_source_first(a, config_file) ==
    IF a.source # "None" THEN "given"
    ELSE IF a.xarray # "None" THEN "xarray_adapter"
    ELSE IF config_file # "None" THEN "loaded"
    ELSE "none"

\* the if / elif chain of _setup_vtk that assigns self.source
choose_source(a, config_file) ==
    IF a.xarray # "None" THEN "xarray_adapter"
    ELSE IF a.source # "None" THEN "given"
    ELSE IF config_file # "None" THEN "loaded"
    ELSE "none"

\* the local variable `field` at line 117: bound only in the import-state
\* branch
setup_field(a, config_file) ==
    IF choose_source(a, config_file) = "loaded" THEN config_field(a)
    ELSE "unbound"

\* _setup_vtk. outcome is "ok", "raised" (reading the unbound local
\* `field`) or "exit1"; the objects are those assigned before it ended.
_setup_vtk(a, config_file) ==
    LET kind  == choose_source(a, config_file)
        field == setup_field(a, config_file)
        none  == [outcome |-> "exit1", source |-> NoSource,
                  assign |-> NoAssign, mapper |-> NoMapper,
                  bands |-> NoBands, lut |-> NoLut, actor |-> NoActor,
                  actor_lines |-> NoActor, conn |-> NoConn]
    IN  IF kind = "none" THEN none
        ELSE IF field = "unbound"
        THEN [none EXCEPT !.outcome = "raised",
                          !.source = [NoSource EXCEPT !.kind = kind]]
        ELSE [outcome     |-> "ok",
              source      |-> [kind |-> kind, t_index |-> 0,
                               arrays |-> ArraysOf(field)],
              assign      |-> [created |-> TRUE, field |-> field],
              mapper      |-> [created |-> TRUE, color_array |-> field,
                               scalar_range |-> <<0, 1>>],
              bands       |-> [NoBands EXCEPT !.created = TRUE],
              lut         |-> [NoLut EXCEPT !.created = TRUE],
              actor       |-> [NoActor EXCEPT !.created = TRUE],
              actor_lines |-> [NoActor EXCEPT !.created = TRUE],
              conn        |-> Pipeline]

\* the watched entries of the state dictionary after _build_ui: the
\* state.update() call and the initial values of the v_model bindings
_build_ui ==
    [scale_x      |-> Num(1000),
     scale_y      |-> Num(1000),
     scale_z      |-> Num(10),
     field        |-> available_arrays[1],
     color_min    |-> 0,
     color_max    |-> 1,
     preset_img   |-> "None",
     color_preset |-> "Cool to Warm",
     nb_contours  |-> 20,
     time_idx     |-> 0,
     slice_t_max  |-> Len(Dataset[available_arrays[1]]) - 1]

ContourExplorerInit ==
    /\ pc = "start"
    /\ LET args        == parse_known_args(argv)
           config_file == config_file_of(args)
           vtk         == _setup_vtk(argv, config_file)
       IN  IF ~args.ok
           THEN /\ pc' = "exited"
                /\ exit_status' = 2
                /\ UNCHANGED <<help_printed, local_rendering, last_field,
                               last_preset, source, assign, mapper, bands,
                               lut, actor, actor_lines, conn, state>>
           ELSE /\ local_rendering' =
                       select_local_rendering(argv.local_rendering, args)
                /\ IF nothing_to_show(argv, config_file)
                   THEN /\ help_printed' = TRUE
                        /\ pc' = "exited"
                        /\ exit_status' = 0
                        /\ UNCHANGED <<last_field, last_preset, source,
                                       assign, mapper, bands, lut, actor,
                                       actor_lines, conn, state>>
                   ELSE /\ last_field' = "None"
                        /\ last_preset' = "None"
                        /\ source' = vtk.source
                        /\ assign' = vtk.assign
                        /\ mapper' = vtk.mapper
                        /\ bands' = vtk.bands
                        /\ lut' = vtk.lut
                        /\ actor' = vtk.actor
                        /\ actor_lines' = vtk.actor_lines
                        /\ conn' = vtk.conn
                        /\ pc' = CASE vtk.outcome = "ok" -> "built"
                                   [] vtk.outcome = "raised" -> "raised"
                                   [] OTHER -> "exited"
                        /\ exit_status' = IF vtk.outcome = "exit1" THEN 1
                                          ELSE exit_status
                        /\ state' = IF vtk.outcome = "ok" THEN _build_ui
                                    ELSE state
                        /\ UNCHANGED help_printed
    /\ UNCHANGED <<argv, dirty, view_calls, edits, environ, gpu>>

\* server.start(): the framework becomes ready and flushes the initial
\* state, so the callback of every watched key runs once
ServerStart ==
    /\ pc = "built"
    /\ pc' = "ready"
    /\ dirty' = WatchedKeys
    /\ UNCHANGED <<argv, exit_status, help_printed, local_rendering,
                   last_field, last_preset, source, assign, mapper, bands,
                   lut, actor, actor_lines, conn, state, view_calls, edits,
                   environ, gpu>>

\* ------------------------------------------------------------------------
\* State change callbacks
\* ------------------------------------------------------------------------

Written_unnoticed(old, new) == {}

\* a write to the reactive state: the key becomes dirty when its value
\* changes
Written(old, new) == {k \in DOMAIN new : old[k] # new[k]}

AllValues_first_step(field) ==
    {Dataset[field][1][i] : i \in 1..Len(Dataset[field][1])}

\* min and max of a field over the whole array (every time step)
AllValues(field) ==
    {Dataset[field][t][i] :
        t \in 1..Len(Dataset[field]), i \in 1..Len(Dataset[field][1])}

field_min(field) ==
    CHOOSE v \in AllValues(field) : \A w \in AllValues(field) : v <= w

field_max(field) ==
    CHOOSE v \in AllValues(field) : \A w \in AllValues(field) : v >= w

\* the state after reset_color_range()
reset_color_range(st) ==
    IF st.field = "None" THEN st
    ELSE [st EXCEPT !.color_min = field_min(st.field),
                    !.color_max = field_max(st.field)]

\* vtkBandedPolyDataContourFilter.GenerateValues(nb, [lo, hi]): nb values
\* evenly spaced from lo to hi, kept multiplied by `scale` = nb - 1
GenerateValues(nb, lo, hi) ==
    LET d == IF nb > 1 THEN nb - 1 ELSE 1
    IN  [created |-> TRUE,
         values  |-> [i \in 1..nb |-> lo * d + (i - 1) * (hi - lo)],
         scale   |-> d]

\* to_image(lut, 255): the preview image of the table's preset
to_image(table) ==
    CASE table.preset = "Cool to Warm" -> "img:cool-to-warm"
      [] table.preset = "Viridis" -> "img:viridis"
      [] OTHER -> "img:default"

\* set_preset(lut, name)
set_preset(table, name) == [table EXCEPT !.preset = name]

scale_change_calls_no_reset(act, local) ==
    IF act.visibility /\ local # "None"
    THEN <<"view_update(push_camera=True)">>
    ELSE <<>>

\* the controller calls of _on_scale_change
scale_change_calls(act, local) ==
    IF act.visibility
    THEN (IF local # "None" THEN <<"view_update(push_camera=True)">>
          ELSE <<>>) \o <<"view_reset_camera">>
    ELSE <<>>

lines_scale_swapped(scale_x, scale_y, scale_z) ==
    <<to_float(scale_x), to_float(scale_z), to_float(scale_y)>>

\* the triple handed to actor_lines.SetScale
lines_scale(scale_x, scale_y, scale_z) ==
    <<to_float(scale_x), to_float(scale_y), to_float(scale_z)>>

_on_scale_change ==
    /\ pc = "ready"
    /\ dirty \cap ScaleKeys # {}
    /\ actor' = [actor EXCEPT !.scale = <<to_float(state.scale_x),
                                          to_float(state.scale_y),
                                          to_float(state.scale_z)>>]
    /\ actor_lines' = [actor_lines EXCEPT !.scale =
            lines_scale(state.scale_x, state.scale_y, state.scale_z)]
    /\ view_calls' = scale_change_calls(actor, local_rendering)
    /\ dirty' = dirty \ ScaleKeys
    /\ UNCHANGED <<argv, pc, exit_status, help_printed, local_rendering,
                   last_field, last_preset, source, assign, mapper, bands,
                   lut, conn, state, edits, environ, gpu>>

update_data_source_keeps_time(src, field, time_idx) ==
    [src EXCEPT !.arrays = [is_none |-> FALSE, items |-> <<field>>]]

\* self.source after the two assignments of _on_update_data
update_data_source(src, field, time_idx) ==
    [src EXCEPT !.t_index = time_idx,
                !.arrays = [is_none |-> FALSE, items |-> <<field>>]]

field_differs_always(last, field) == TRUE

\* the test `self.last_field != field` of _on_update_data
field_differs(last, field) == last # field

_on_update_data ==
    /\ pc = "ready"
    /\ dirty \cap DataKeys # {}
    /\ LET field    == state.field
           time_idx == state.time_idx
           new      == IF field_differs(last_field, field)
                       THEN reset_color_range(state)
                       ELSE state
       IN  /\ source' = update_data_source(source, field, time_idx)
           /\ assign' = [assign EXCEPT !.field = field]
           /\ mapper' = [mapper EXCEPT !.color_array = field]
           /\ last_field' = IF field_differs(last_field, field) THEN field
                            ELSE last_field
           /\ state' = new
           /\ dirty' = (dirty \ DataKeys) \cup Written(state, new)
    /\ view_calls' = <<"view_update">>
    /\ UNCHANGED <<argv, pc, exit_status, help_printed, local_rendering,
                   last_preset, bands, lut, actor, actor_lines, conn,
                   edits, environ, gpu>>

color_range_of_unit(color_min, color_max) == <<0, 1>>

\* the range handed to mapper.SetScalarRange
color_range_of(color_min, color_max) == <<color_min, color_max>>

preset_differs_inverted(last, color_preset) == last = color_preset

\* the test `self.last_preset != color_preset` of _on_update_color_range
preset_differs(last, color_preset) == last # color_preset

_on_update_color_range ==
    /\ pc = "ready"
    /\ dirty \cap ColorKeys # {}
    /\ LET nb_contours  == state.nb_contours
           color_min    == state.color_min
           color_max    == state.color_max
           color_preset == state.color_preset
           table        == IF preset_differs(last_preset, color_preset)
                           THEN set_preset(lut, color_preset) ELSE lut
           new          == IF preset_differs(last_preset, color_preset)
                           THEN [state EXCEPT !.preset_img = to_image(table)]
                           ELSE state
       IN  /\ last_preset' = IF preset_differs(last_preset, color_preset)
                             THEN color_preset ELSE last_preset
           /\ lut' = table
           /\ state' = new
           /\ mapper' = [mapper EXCEPT !.scalar_range =
                             color_range_of(color_min, color_max)]
           /\ bands' = GenerateValues(nb_contours, color_min, color_max)
    /\ dirty' = dirty \ ColorKeys
    /\ view_calls' = <<"view_update">>
    /\ UNCHANGED <<argv, pc, exit_status, help_printed, local_rendering,
                   last_field, source, assign, actor, actor_lines, conn,
                   edits, environ, gpu>>

\* ------------------------------------------------------------------------
\* User interactions
\* ------------------------------------------------------------------------

\* the values the widget bound to a key can send
Inputs(key) ==
    CASE key \in ScaleKeys -> ScaleInputs
      [] key = "field" -> Fields
      [] key = "time_idx" -> 0..state.slice_t_max
      [] key \in {"color_min", "color_max"} -> ColorInputs
      [] key = "color_preset" -> PRESETS
      [] key = "nb_contours" -> NbContoursInputs

\* a widget of the control panel writes its v_model key
ClientUpdate ==
    /\ pc = "ready"
    /\ edits < MaxEdits
    /\ \E key \in WatchedKeys : \E v \in Inputs(key) :
           /\ state[key] # v
           /\ state' = [state EXCEPT ![key] = v]
           /\ dirty' = dirty \cup {key}
    /\ edits' = edits + 1
    /\ UNCHANGED <<argv, pc, exit_status, help_printed, local_rendering,
                   last_field, last_preset, source, assign, mapper, bands,
                   lut, actor, actor_lines, conn, view_calls, environ, gpu>>

\* the button next to the color range: click=self.reset_color_range
ResetColorRangeClick ==
    /\ pc = "ready"
    /\ edits < MaxEdits
    /\ state' = reset_color_range(state)
    /\ dirty' = dirty \cup Written(state, state')
    /\ edits' = edits + 1
    /\ UNCHANGED <<argv, pc, exit_status, help_printed, local_rendering,
                   last_field, last_preset, source, assign, mapper, bands,
                   lut, actor, actor_lines, conn, view_calls, environ, gpu>>

\* ------------------------------------------------------------------------
\* Specifications
\* ------------------------------------------------------------------------

Args ==
    [xarray : {"None", "ds"}, source : {"None", "src"},
     local_rendering : LocalRenderingArgs, wasm : BOOLEAN, vtkjs : BOOLEAN,
     import_state : ImportStateArgs, color_by : ColorByValues]

InitApp ==
    /\ pc = "start"
    /\ exit_status = -1
    /\ help_printed = FALSE
    /\ local_rendering = "unset"
    /\ last_field = "unset"
    /\ last_preset = "unset"
    /\ source = NoSource
    /\ assign = NoAssign
    /\ mapper = NoMapper
    /\ bands = NoBands
    /\ lut = NoLut
    /\ actor = NoActor
    /\ actor_lines = NoActor
    /\ conn = NoConn
    /\ state = NoState
    /\ dirty = {}
    /\ view_calls = <<>>
    /\ edits = 0

DefaultEnv == [n \in EnvNames |-> "unset"]

Init ==
    /\ argv \in Args
    /\ InitApp
    /\ environ = DefaultEnv
    /\ gpu = "unset"

Next ==
    \/ ContourExplorerInit
    \/ ServerStart
    \/ _on_scale_change
    \/ _on_update_data
    \/ _on_update_color_range
    \/ ClientUpdate
    \/ ResetColorRangeClick

Spec == Init /\ [][Next]_vars

\* the constructions the liveness check starts from: an existing
\* import-state file, with and without local rendering
FairArgs ==
    {a \in Args : /\ a.xarray = "None" /\ a.source = "None"
                  /\ a.import_state = "state.json"
                  /\ a.color_by = "f2"
                  /\ ~a.wasm /\ ~a.vtkjs}

FairInit ==
    /\ argv \in FairArgs
    /\ InitApp
    /\ environ = DefaultEnv
    /\ gpu = "unset"

\* the framework's flush runs every pending callback
FairSpec ==
    /\ FairInit
    /\ [][Next]_vars
    /\ WF_vars(_on_scale_change)
    /\ WF_vars(_on_update_data)
    /\ WF_vars(_on_update_color_range)

\* The server handles one client message at a time: the state write of a
\* message is flushed, and the callbacks it triggers run, before the next
\* message is read.
ClientMessage ==
    /\ dirty = {}
    /\ ClientUpdate

ResetColorRangeMessage ==
    /\ dirty = {}
    /\ ResetColorRangeClick

NextSerial ==
    \/ ContourExplorerInit
    \/ ServerStart
    \/ _on_scale_change
    \/ _on_update_data
    \/ _on_update_color_range
    \/ ClientMessage
    \/ ResetColorRangeMessage

SerialSpec ==
    /\ FairInit
    /\ [][NextSerial]_vars
    /\ WF_vars(_on_scale_change)
    /\ WF_vars(_on_update_data)
    /\ WF_vars(_on_update_color_range)

DefaultArgs ==
    [xarray |-> "None", source |-> "None", local_rendering |-> "None",
     wasm |-> FALSE, vtkjs |-> FALSE, import_state |-> "absent",
     color_by |-> "absent"]

\* reset_color_range() called on every state dictionary, the field being
\* a field of the dataset or None
ResetArgs == [DefaultArgs EXCEPT !.import_state = "state.json"]

ColorStart == ColorInputs \cup {_build_ui.color_min, _build_ui.color_max}

InitReset ==
    /\ argv = ResetArgs
    /\ pc = "ready"
    /\ exit_status = -1
    /\ help_printed = FALSE
    /\ local_rendering = select_local_rendering(ResetArgs.local_rendering,
                                                parse_known_args(ResetArgs))
    /\ last_field = "None"
    /\ last_preset = "None"
    /\ LET vtk == _setup_vtk(ResetArgs, "state.json")
       IN  /\ source = vtk.source
           /\ assign = vtk.assign
           /\ mapper = vtk.mapper
           /\ bands = vtk.bands
           /\ lut = vtk.lut
           /\ actor = vtk.actor
           /\ actor_lines = vtk.actor_lines
           /\ conn = vtk.conn
    /\ state \in {[_build_ui EXCEPT !.field = f, !.time_idx = t,
                                    !.color_min = lo, !.color_max = hi] :
                      f \in Fields \cup {"None"},
                      t \in 0.._build_ui.slice_t_max,
                      lo \in ColorStart, hi \in ColorStart}
    /\ dirty = {}
    /\ view_calls = <<>>
    /\ edits = 0
    /\ environ = DefaultEnv
    /\ gpu = "unset"

NextReset == ResetColorRangeClick

SpecReset == InitReset /\ [][NextReset]_vars

\* has_gpu_rendering under every environment
InitGpu ==
    /\ argv = DefaultArgs
    /\ InitApp
    /\ environ \in [EnvNames -> EnvValues]
    /\ gpu = "unset"

NextGpu == CallHasGpuRendering

SpecGpu == InitGpu /\ [][NextGpu]_vars

\* ------------------------------------------------------------------------
\* Properties
\* ------------------------------------------------------------------------

RenderCalls ==
    {"view_update", "view_update(push_camera=True)", "view_reset_camera"}

RenderRequested(calls) == \E i \in 1..Len(calls) : calls[i] \in RenderCalls

\* a step in which the callback of the given keys ran
Ran(keys) == dirty \cap keys # {} /\ dirty' \cap keys = {}

StateScale(st) ==
    <<to_float(st.scale_x), to_float(st.scale_y), to_float(st.scale_z)>>

\* C1: every write to a watched key is followed by a run of the callback
\* registered for it, and every callback run leaves the pipeline
\* parameters equal to the state's values and has asked the view to
\* render (view_update or view_reset_camera).
C1_MutationRunsCallback ==
    /\ \A keys \in {ScaleKeys, DataKeys, ColorKeys} :
           (dirty \cap keys # {}) ~> (dirty \cap keys = {})
    /\ [][/\ Ran(ScaleKeys) =>
               /\ actor'.scale = StateScale(state')
               /\ actor_lines'.scale = StateScale(state')
               /\ RenderRequested(view_calls')
          /\ Ran(DataKeys) =>
               /\ source'.t_index = state'.time_idx
               /\ source'.arrays.items = <<state'.field>>
               /\ assign'.field = state'.field
               /\ mapper'.color_array = state'.field
               /\ RenderRequested(view_calls')
          /\ Ran(ColorKeys) =>
               /\ mapper'.scalar_range =
                      <<state'.color_min, state'.color_max>>
               /\ Len(bands'.values) = state'.nb_contours
               /\ lut'.preset = state'.color_preset
               /\ RenderRequested(view_calls')]_vars

C1_Witness ==
    /\ pc = "ready"
    /\ edits > 0
    /\ dirty = {}
    /\ state.scale_x = Str(2000)
    /\ actor.scale[1] = 2000
    /\ view_calls = <<"view_reset_camera">>

\* C2: once the data callback has run for the latest field / time_idx
\* write, source.t_index, source.arrays, the assigned point scalars and
\* the mapper's color array all name the state's time_idx and field.
C2_DataPlacesAgree ==
    (pc = "ready" /\ dirty \cap DataKeys = {}) =>
        /\ source.t_index = state.time_idx
        /\ ~source.arrays.is_none
        /\ source.arrays.items = <<state.field>>
        /\ assign.field = state.field
        /\ mapper.color_array = state.field

C2_Witness ==
    /\ pc = "ready"
    /\ dirty \cap DataKeys = {}
    /\ edits = 2
    /\ state.field = "f2"
    /\ state.time_idx = 1
    /\ source.t_index = 1
    /\ mapper.color_array = "f2"

\* n values evenly spaced from lo to hi (values kept multiplied by scale)
SpansRange(b, n, lo, hi) ==
    /\ Len(b.values) = n
    /\ b.values[1] = lo * b.scale
    /\ b.values[n] = hi * b.scale
    /\ \A i \in 1..(n - 1) : \A j \in 1..(n - 1) :
           b.values[i + 1] - b.values[i] = b.values[j + 1] - b.values[j]

\* C3: once the color callback has run for the latest color write, the
\* mapper's scalar range is (color_min, color_max) and the contour filter
\* holds nb_contours values spanning [color_min, color_max].
C3_ColorRangeEqualsBandRange ==
    (pc = "ready" /\ dirty \cap ColorKeys = {}) =>
        /\ mapper.scalar_range = <<state.color_min, state.color_max>>
        /\ SpansRange(bands, state.nb_contours,
                      mapper.scalar_range[1], mapper.scalar_range[2])

C3_Witness ==
    /\ pc = "ready"
    /\ dirty \cap ColorKeys = {}
    /\ state.color_min = 7
    /\ state.nb_contours = 3
    /\ mapper.scalar_range[1] = 7
    /\ Len(bands.values) = 3

\* C4: from set-up on, in every state and so across every callback, the
\* stages are connected source -> geometry -> triangle -> cell2point ->
\* refine -> assign -> bands -> mapper -> actor, with bands' second
\* output -> mapper_lines -> actor_lines, and both actors in the renderer.
C4_PipelineFixed ==
    (pc \in {"built", "ready"}) =>
        /\ DOMAIN conn = {"geometry", "triangle", "cell2point", "refine",
                          "assign", "bands", "mapper", "actor",
                          "mapper_lines", "actor_lines", "renderer_1",
                          "renderer_2"}
        /\ conn.geometry = "source"
        /\ conn.triangle = "geometry"
        /\ conn.cell2point = "triangle"
        /\ conn.refine = "cell2point"
        /\ conn.assign = "refine"
        /\ conn.bands = "assign"
        /\ conn.mapper = "bands:0"
        /\ conn.actor = "mapper"
        /\ conn.mapper_lines = "bands:1"
        /\ conn.actor_lines = "mapper_lines"
        /\ conn.renderer_1 = "actor"
        /\ conn.renderer_2 = "actor_lines"

C4_Witness ==
    /\ pc = "ready"
    /\ edits = 2
    /\ dirty = {}
    /\ state.field = "f2"
    /\ state.scale_y = Str(2000)
    /\ conn.mapper_lines = "bands:1"

\* data was supplied in one of the three ways
Supplied(a) ==
    a.xarray # "None" \/ a.source # "None" \/ Exists(a.import_state)

\* C5: whenever data is supplied as an xarray, a source or an existing
\* import-state file, the constructor's _setup_vtk completes with the
\* pipeline wired, and with an xarray or a source source.arrays is None.
C5_SetupCompletes ==
    (pc # "start" /\ Supplied(argv)) =>
        /\ pc \in {"built", "ready"}
        /\ conn # NoConn
        /\ mapper.created /\ actor.created /\ actor_lines.created
        /\ (pc = "built" /\ (argv.xarray # "None" \/ argv.source # "None"))
               => source.arrays.is_none

\* C6: self.source is the adapter over the xarray when an xarray is
\* given, else the given source, else the adapter loaded from the
\* import-state file, whose initial field is the file's color_by or None.
C6_SourcePrecedence ==
    (pc \in {"raised", "built", "ready"}) =>
        /\ argv.xarray # "None" => source.kind = "xarray_adapter"
        /\ (argv.xarray = "None" /\ argv.source # "None")
               => source.kind = "given"
        /\ (argv.xarray = "None" /\ argv.source = "None")
               => source.kind = "loaded"
        /\ (pc = "built" /\ source.kind = "loaded") =>
               /\ argv.color_by = "absent" =>
                      (source.arrays.is_none /\ assign.field = "None"
                       /\ mapper.color_array = "None")
               /\ argv.color_by # "absent" =>
                      (source.arrays.items = <<argv.color_by>>
                       /\ assign.field = argv.color_by
                       /\ mapper.color_array = argv.color_by)

C6_Witness ==
    /\ pc = "built"
    /\ argv.xarray = "None"
    /\ argv.source = "None"
    /\ source.kind = "loaded"
    /\ source.arrays.items = <<"f2">>

NothingCreated ==
    /\ last_field = "unset"
    /\ last_preset = "unset"
    /\ source.kind = "unset"
    /\ state = NoState
    /\ conn = NoConn

\* C7 as stated: with no xarray and no source, and --import-state absent
\* or naming a missing path, the constructor prints the help, exits with
\* status 0 and has created nothing.
C7_HelpAndExitZero ==
    (/\ pc # "start"
     /\ argv.xarray = "None"
     /\ argv.source = "None"
     /\ argv.import_state = "absent" \/ ~Exists(argv.import_state)) =>
        /\ pc = "exited"
        /\ help_printed
        /\ exit_status = 0
        /\ NothingCreated

\* C7 amended: with no xarray and no source, a --import-state that names
\* a missing path (or is empty) makes the constructor print the help and
\* exit with status 0; an absent --import-state is a missing required
\* argument, for which the argument parser exits with status 2 without
\* the help being printed; in both cases nothing has been created.
C7_ExitBeforeSetup ==
    (/\ pc # "start"
     /\ argv.xarray = "None"
     /\ argv.source = "None"
     /\ argv.import_state = "absent" \/ ~Exists(argv.import_state)) =>
        /\ pc = "exited"
        /\ NothingCreated
        /\ argv.import_state = "absent" =>
               (exit_status = 2 /\ ~help_printed)
        /\ argv.import_state # "absent" =>
               (exit_status = 0 /\ help_printed)

C7_Witness ==
    /\ pc = "exited"
    /\ argv.xarray = "None"
    /\ argv.source = "None"
    /\ argv.import_state = "missing.json"
    /\ help_printed
    /\ exit_status = 0

\* C8: once set, self.local_rendering is "vtkjs" with --vtkjs, else
\* "wasm" with --wasm, else the constructor argument; it is set whenever
\* the arguments parse and no later step changes it.
C8_LocalRenderingPrecedence ==
    /\ local_rendering # "unset" =>
           local_rendering = IF argv.vtkjs THEN "vtkjs"
                             ELSE IF argv.wasm THEN "wasm"
                             ELSE argv.local_rendering
    /\ (pc # "start" /\ exit_status # 2) => local_rendering # "unset"

C8_Witness ==
    /\ pc = "ready"
    /\ edits > 0
    /\ dirty = {}
    /\ argv.vtkjs
    /\ argv.wasm
    /\ argv.local_rendering = "wasm"
    /\ local_rendering = "vtkjs"

\* C9: has_gpu_rendering() returns False exactly when BINDER_REQUEST is
\* set to a non-empty string, whatever the other variables hold, and the
\* call leaves the environment as it was.
C9_GpuUnlessBinder ==
    /\ [](gpu # "unset" =>
            (gpu = "False" <=>
                environ["BINDER_REQUEST"] \notin {"unset", ""}))
    /\ [][environ' = environ]_vars

C9_Witness ==
    /\ gpu = "True"
    /\ environ["BINDER_REQUEST"] = ""
    /\ environ["HOME"] = "1"

\* C10: the surface actor and the contour-line actor have the same scale
\* in every state, and once the scale callback has run for the latest
\* scale write both hold the floats of scale_x, scale_y, scale_z.
C10_ActorsSameScale ==
    /\ actor.scale = actor_lines.scale
    /\ (pc = "ready" /\ dirty \cap ScaleKeys = {}) =>
           actor.scale = StateScale(state)

C10_Witness ==
    /\ pc = "ready"
    /\ dirty \cap ScaleKeys = {}
    /\ state.scale_y = Str(2000)
    /\ state.scale_z = Str(10)
    /\ actor_lines.scale = <<1000, 2000, 10>>

\* C11: a run of the data callback whose field equals last_field leaves
\* color_min and color_max as they were; a run with another field sets
\* them to the field's minimum and maximum and records the field in
\* last_field.
C11_ResetOnlyOnNewField ==
    [][Ran(DataKeys) =>
         IF last_field = state.field
         THEN /\ state'.color_min = state.color_min
              /\ state'.color_max = state.color_max
              /\ last_field' = last_field
         ELSE /\ \A t \in 1..Len(Dataset[state.field]) :
                    \A i \in 1..Len(Dataset[state.field][t]) :
                        /\ state'.color_min <= Dataset[state.field][t][i]
                        /\ state'.color_max >= Dataset[state.field][t][i]
              /\ \E t \in 1..Len(Dataset[state.field]) :
                    \E i \in 1..Len(Dataset[state.field][t]) :
                        state'.color_min = Dataset[state.field][t][i]
              /\ \E t \in 1..Len(Dataset[state.field]) :
                    \E i \in 1..Len(Dataset[state.field][t]) :
                        state'.color_max = Dataset[state.field][t][i]
              /\ last_field' = state.field]_vars

\* the user typed color_min = 7, then moved the time slider; the data
\* callback has run for the new time step and 7 is still there
C11_Witness ==
    /\ pc = "ready"
    /\ dirty \cap DataKeys = {}
    /\ last_field = "f1"
    /\ state.field = "f1"
    /\ state.time_idx = 1
    /\ source.t_index = 1
    /\ state.color_min = 7
    /\ mapper.scalar_range[1] = 7

\* C12: once a field other than last_field is selected, a state follows
\* in which the mapper's scalar range and the contour values both span
\* (minimum, maximum) of that field and a view update has been requested.
C12_FieldRangeReachesMapper ==
    \A f \in Fields :
        (pc = "ready" /\ "field" \in dirty /\ state.field = f
            /\ last_field # f)
        ~> (/\ mapper.scalar_range = <<field_min(f), field_max(f)>>
            /\ SpansRange(bands, state.nb_contours,
                          field_min(f), field_max(f))
            /\ view_calls = <<"view_update">>)

C12_Witness ==
    /\ pc = "ready"
    /\ edits > 0
    /\ dirty = {}
    /\ state.field = "f2"
    /\ last_field = "f2"
    /\ mapper.scalar_range = <<3, 5>>
    /\ bands.values[1] = 3 * bands.scale
    /\ view_calls = <<"view_update">>

\* C13: reset_color_range leaves color_min and color_max alone when the
\* state's field is None; otherwise it sets them to the least and the
\* greatest value of the field over every time step, whatever time_idx
\* is, so that color_min <= color_max.
C13_ResetRangeWholeArray ==
    [][edits' = edits + 1 =>
         IF state.field = "None"
         THEN state' = state
         ELSE /\ \A t \in 1..Len(Dataset[state.field]) :
                    \A i \in 1..Len(Dataset[state.field][t]) :
                        /\ state'.color_min <= Dataset[state.field][t][i]
                        /\ state'.color_max >= Dataset[state.field][t][i]
              /\ \E t \in 1..Len(Dataset[state.field]) :
                    \E i \in 1..Len(Dataset[state.field][t]) :
                        state'.color_min = Dataset[state.field][t][i]
              /\ \E t \in 1..Len(Dataset[state.field]) :
                    \E i \in 1..Len(Dataset[state.field][t]) :
                        state'.color_max = Dataset[state.field][t][i]
              /\ state'.color_min <= state'.color_max
              /\ state' = [state EXCEPT
                               !.color_min = state'.color_min,
                               !.color_max = state'.color_max]]_vars

\* a reset at the first time step of f1, whose least value lies in the
\* second time step
C13_Witness ==
    /\ pc = "ready"
    /\ edits = 1
    /\ state.field = "f1"
    /\ state.time_idx = 0
    /\ state.color_min = 0
    /\ state.color_max = 4
    /\ dirty = {"color_min", "color_max"}

\* C14: a run of the color callback applies the state's preset to the
\* lookup table and replaces the preview image when the preset differs
\* from last_preset, and leaves the table and the image as they were
\* otherwise; after the run last_preset is the state's color_preset.
C14_PresetAppliedOnChange ==
    [][Ran(ColorKeys) =>
         /\ IF last_preset # state.color_preset
            THEN /\ lut'.preset = state.color_preset
                 /\ state'.preset_img = to_image(lut')
                 /\ state'.preset_img # state.preset_img
            ELSE /\ lut' = lut
                 /\ state'.preset_img = state.preset_img
         /\ last_preset' = state'.color_preset
         /\ state'.color_preset = state.color_preset]_vars

\* the preset was changed to Viridis and color_min typed; both have been
\* applied
C14_Witness ==
    /\ pc = "ready"
    /\ dirty \cap ColorKeys = {}
    /\ edits = 2
    /\ state.color_preset = "Viridis"
    /\ last_preset = "Viridis"
    /\ lut.preset = "Viridis"
    /\ state.preset_img = "img:viridis"
    /\ state.color_min = 7
    /\ mapper.scalar_range[1] = 7

\* number of time steps of a field: source.input[field].shape[0]
nb_times(field) == Len(Dataset[field])

\* C15: in every state the time index held by the source is a time step
\* of the field the source has selected:
\* 0 <= source.t_index <= nb_times(field) - 1.
C15_TimeIndexValid ==
    (pc \in {"built", "ready"} /\ ~source.arrays.is_none) =>
        /\ 0 <= source.t_index
        /\ source.t_index <= nb_times(source.arrays.items[1]) - 1

====
